---- MODULE Spec2Model ----
(***************************************************************************)
(* Model of the FitVercel food-scan API: the health handler and the scan   *)
(* handler of src/api/food-scan/health.js (rate limiter, input validation, *)
(* upstream call, response normalisation, error mapping).                  *)
(***************************************************************************)
EXTENDS Integers, Sequences, FiniteSets, TLC

\* ------------------------------------------------------------------ bounds
\* Number of rate-limit windows the clock may run through.
MaxWindows == 1
\* Number of scan handlers that may be suspended at `await fetch` at once.
MaxInflight == 1
\* Longest base64 payload a request carries.
MaxLen == 2

\* ------------------------------------------------------- program constants
RATE_LIMIT_WINDOW == 60 * 1000
RATE_LIMIT_MAX_REQUESTS == 10
maxSizeMB == 10
maxSizeBytes == maxSizeMB * 1024 * 1024
allowedMimeTypes == {"image/jpeg", "image/png"}

\* ---------------------------------------------------------------- strings
\* A string is a sequence of one-character strings.  Undefined stands for a
\* property missing from the request body.
Undefined == <<"undefined">>
Falsy(s) == s = Undefined \/ s = <<>>

DataImagePrefix == <<"d", "a", "t", "a", ":", "i", "m", "a", "g", "e", "/">>
Base64Marker == <<";", "b", "a", "s", "e", "6", "4", ",">>
\* The character class [a-zA-Z+] of the regular expression.
SubtypeChars ==
  {"a", "b", "c", "d", "e", "f", "g", "h", "i", "j", "k", "l", "m", "n", "o",
   "p", "q", "r", "s", "t", "u", "v", "w", "x", "y", "z",
   "A", "B", "C", "D", "E", "F", "G", "H", "I", "J", "K", "L", "M", "N", "O",
   "P", "Q", "R", "S", "T", "U", "V", "W", "X", "Y", "Z", "+"}
\* Characters the regular expression's `.` does not match.
LineTerminators == {"\n", "\r"}

\* Length of the run of [a-zA-Z+] characters of s that starts at index i.
RECURSIVE RunLen(_, _)
RunLen(s, i) ==
  IF i <= Len(s) /\ s[i] \in SubtypeChars THEN 1 + RunLen(s, i + 1) ELSE 0

\* imageBase64.match(/^data:image\/[a-zA-Z+]+;base64,(.+)$/): whether the
\* whole string matches, and capture group 1.
DataUrlMatch(s) ==
  LET n == Len(s)
      p == Len(DataImagePrefix)
      k == RunLen(s, p + 1)
      m == Len(Base64Marker)
      rest == SubSeq(s, p + k + m + 1, n)
  IN  [matched |->
          /\ n >= p + k + m
          /\ SubSeq(s, 1, p) = DataImagePrefix
          /\ k >= 1
          /\ SubSeq(s, p + k + 1, p + k + m) = Base64Marker
          /\ Len(rest) >= 1
          /\ \A i \in 1..Len(rest) : rest[i] \notin LineTerminators,
       group1 |-> rest]

stripDataUrlPrefix(imageBase64) ==
  IF Falsy(imageBase64) THEN <<>>
  ELSE LET dataUrlMatch == DataUrlMatch(imageBase64)
       IN  IF dataUrlMatch.matched THEN dataUrlMatch.group1 ELSE imageBase64

ErrMime == "Invalid mimeType. Allowed: image/jpeg, image/png"
ErrRequired == "imageBase64 is required"
ErrTooLarge == "Image too large. Max size: 10MB"

\* validateImagePayload.  The size estimate length * 3 / 4 is kept as its
\* numerator (estimate4 = 4 * estimatedSizeBytes) so that it stays an integer.
validateImagePayload(imageBase64, mimeType) ==
  LET e1 == IF mimeType = "" \/ mimeType \notin allowedMimeTypes
            THEN <<ErrMime>> ELSE <<>>
      e2 == IF Falsy(imageBase64) THEN <<ErrRequired>> ELSE <<>>
      cleanBase64 == stripDataUrlPrefix(imageBase64)
      estimate4 == Len(cleanBase64) * 3
      e3 == IF estimate4 > 4 * maxSizeBytes THEN <<ErrTooLarge>> ELSE <<>>
      errors == e1 \o e2 \o e3
  IN  [valid |-> errors = <<>>, errors |-> errors,
       cleanBase64 |-> cleanBase64, estimate4 |-> estimate4]

\* ------------------------------------------------- response normalisation
\* The upstream reply's text is a sequence of tokens: Markdown fences, braces,
\* prose, and JSON members.  A span parses as JSON exactly when everything
\* between its outer braces is a JSON member.
FenceTokens == {"<fence json>", "<fence>"}
MemberTokens == {"detected:false", "detected:true", "items:[apple]",
                 "items:\"none\"", "notes:\"ok\""}

RECURSIVE RemoveFences(_)
RemoveFences(text) ==
  IF text = <<>> THEN <<>>
  ELSE IF Head(text) \in FenceTokens THEN RemoveFences(Tail(text))
       ELSE <<Head(text)>> \o RemoveFences(Tail(text))

\* textContent.match(/\{[\s\S]*\}/): from the first "{" to the last "}".
JsonMatch(text) ==
  LET opens == {i \in 1..Len(text) : text[i] = "{"}
      first == IF opens = {} THEN 0
               ELSE CHOOSE i \in opens : \A j \in opens : i <= j
      closes == {i \in 1..Len(text) : text[i] = "}" /\ i > first}
      last_ == IF closes = {} THEN 0
               ELSE CHOOSE i \in closes : \A j \in closes : i >= j
  IN  [matched |-> first > 0 /\ last_ > 0,
       inner |-> IF first > 0 /\ last_ > 0
                 THEN SubSeq(text, first + 1, last_ - 1) ELSE <<>>]

Contains(seq, x) == \E i \in 1..Len(seq) : seq[i] = x

NoResult == [detected |-> "", items |-> <<>>, notes |-> "", parseError |-> ""]

fallback(message) ==
  [detected |-> "true", items |-> <<>>,
   notes |-> "Model returned non-JSON output; please confirm manually.",
   parseError |-> message]

\* JSON.parse of the matched span followed by the two structural defaults.
ParsedJson(inner) ==
  [detected |-> IF Contains(inner, "detected:false") THEN "false" ELSE "true",
   items |-> IF Contains(inner, "items:[apple]") THEN <<"apple">> ELSE <<>>,
   notes |-> IF Contains(inner, "notes:\"ok\"") THEN "ok" ELSE "",
   parseError |-> ""]

parseGeminiResponse_Rethrows(geminiResponse) ==
  [threw |-> TRUE, result |-> NoResult]

\* parseGeminiResponse: [threw, result]; threw is whether an exception leaves
\* the function.
parseGeminiResponse(geminiResponse) ==
  LET g == geminiResponse IN
  IF g.isNull
  THEN [threw |-> FALSE, result |-> fallback("Cannot read properties of null")]
  ELSE IF ~g.hasCandidates \/ g.candidates = <<>>
  THEN [threw |-> FALSE, result |-> fallback("No candidates in Gemini response")]
  ELSE LET c == g.candidates[1] IN
  IF ~c.hasParts \/ c.parts = <<>>
  THEN [threw |-> FALSE, result |-> fallback("No parts in Gemini response")]
  ELSE LET textContent == RemoveFences(IF c.parts[1].hasText
                                       THEN c.parts[1].text ELSE <<>>)
           jsonMatch == JsonMatch(textContent)
       IN  IF ~jsonMatch.matched
           THEN [threw |-> FALSE,
                 result |-> fallback("No JSON object found in response")]
           ELSE IF \E i \in 1..Len(jsonMatch.inner) :
                      jsonMatch.inner[i] \notin MemberTokens
           THEN [threw |-> FALSE, result |-> fallback("Unexpected token")]
           ELSE [threw |-> FALSE, result |-> ParsedJson(jsonMatch.inner)]

\* ----------------------------------------------------------- rate limiter
\* A rate-limit entry is {windowStart, count}; NoEntry is a key missing from
\* the Map.
NoEntry == [windowStart |-> -1, count |-> 0]
Entry(t, n) == [windowStart |-> t, count |-> n]

\* The client identifiers getClientIp can return in this model.
Clients == {"10.0.0.1", "unknown"}

cleanupRateLimitStore_IgnoresWindow(store, t) ==
  [ip \in DOMAIN store |->
     IF store[ip] # NoEntry /\ t - store[ip].windowStart > 0
     THEN NoEntry ELSE store[ip]]

cleanupRateLimitStore(store, t) ==
  [ip \in DOMAIN store |->
     IF store[ip] # NoEntry /\ t - store[ip].windowStart > RATE_LIMIT_WINDOW
     THEN NoEntry ELSE store[ip]]

checkRateLimit_KeepsCountOnNewWindow(store, ip, t) ==
  LET clientData == store[ip] IN
  IF clientData = NoEntry
  THEN [limited |-> FALSE, store |-> [store EXCEPT ![ip] = Entry(t, 1)]]
  ELSE IF t - clientData.windowStart < RATE_LIMIT_WINDOW
  THEN IF clientData.count >= RATE_LIMIT_MAX_REQUESTS
       THEN [limited |-> TRUE, store |-> store]
       ELSE [limited |-> FALSE,
             store |-> [store EXCEPT ![ip].count = clientData.count + 1]]
  ELSE IF clientData.count >= RATE_LIMIT_MAX_REQUESTS
       THEN [limited |-> TRUE, store |-> store]
       ELSE [limited |-> FALSE,
             store |-> [store EXCEPT ![ip] = Entry(t, clientData.count + 1)]]

checkRateLimit_CountsRejected(store, ip, t) ==
  LET clientData == store[ip] IN
  IF clientData = NoEntry
  THEN [limited |-> FALSE, store |-> [store EXCEPT ![ip] = Entry(t, 1)]]
  ELSE IF t - clientData.windowStart < RATE_LIMIT_WINDOW
  THEN [limited |-> clientData.count >= RATE_LIMIT_MAX_REQUESTS,
        store |-> [store EXCEPT ![ip].count = clientData.count + 1]]
  ELSE [limited |-> FALSE, store |-> [store EXCEPT ![ip] = Entry(t, 1)]]

\* Lines 96-116 of isRateLimited: the lookup and update that follow the
\* purge.  Returns the decision and the Map afterwards.
checkRateLimit(store, ip, t) ==
  LET clientData == store[ip] IN
  IF clientData = NoEntry
  THEN [limited |-> FALSE, store |-> [store EXCEPT ![ip] = Entry(t, 1)]]
  ELSE IF t - clientData.windowStart < RATE_LIMIT_WINDOW
  THEN IF clientData.count >= RATE_LIMIT_MAX_REQUESTS
       THEN [limited |-> TRUE, store |-> store]
       ELSE [limited |-> FALSE,
             store |-> [store EXCEPT ![ip].count = clientData.count + 1]]
  ELSE [limited |-> FALSE, store |-> [store EXCEPT ![ip] = Entry(t, 1)]]

\* Date.now() is read once per call: the purge and the lookup run in the same
\* synchronous turn.
isRateLimited(store, ip, t) ==
  checkRateLimit(cleanupRateLimitStore(store, t), ip, t)

\* Request headers: xff is the comma-separated x-forwarded-for list, split
\* and trimmed (<<>> when the header is missing); "" is a missing header.
getClientIp(req) ==
  IF req.xff # <<>> /\ req.xff[1] # "" THEN req.xff[1]
  ELSE IF req.realIp # "" THEN req.realIp
  ELSE IF req.remoteAddress # "" THEN req.remoteAddress
  ELSE "unknown"

\* ------------------------------------------------------------ responses
ALLOWED_ORIGIN == "https://eray464646.github.io"

setCorsHeaders(methods) ==
  [allowOrigin |-> ALLOWED_ORIGIN, allowMethods |-> methods,
   allowHeaders |-> "Content-Type, Authorization", vary |-> "Origin",
   retryAfter |-> ""]

\* What one handler invocation has done so far: the steps it ran (trace),
\* the response it sent (status 0: none yet, suspended at the upstream call),
\* the client identifier and that client's entry before the limiter ran.
Outcome(trace, status, headers, hasBody, error, details, result, ip, pre) ==
  [trace |-> trace, status |-> status, headers |-> headers,
   hasBody |-> hasBody, error |-> error, details |-> details,
   result |-> result, ip |-> ip, pre |-> pre]

\* The catch block of the scan handler: message is the error message as a
\* sequence of tokens, includes() is token containment.
errorResponse_FetchFirst(message) ==
  IF Contains(message, "fetch")
  THEN [status |-> 500, error |-> "Network error"]
  ELSE IF Contains(message, "Gemini API error")
  THEN [status |-> 502, error |-> "External API error"]
  ELSE [status |-> 500, error |-> "Internal server error"]

errorResponse(message) ==
  IF Contains(message, "Gemini API error")
  THEN [status |-> 502, error |-> "External API error"]
  ELSE IF Contains(message, "fetch")
  THEN [status |-> 500, error |-> "Network error"]
  ELSE [status |-> 500, error |-> "Internal server error"]

\* -------------------------------------------------------- health handler
healthHandler(method, key) ==
  LET cors == setCorsHeaders("GET, OPTIONS") IN
  IF method = "OPTIONS"
  THEN Outcome(<<"send">>, 200, cors, FALSE, "", <<>>, NoResult, "", NoEntry)
  ELSE IF method # "GET"
  THEN Outcome(<<"send">>, 405, cors, TRUE, "Method not allowed", <<>>,
               NoResult, "", NoEntry)
  ELSE Outcome(<<"send">>, 200, cors, TRUE, "",
               <<"ok:true", "provider:gemini",
                 IF key THEN "configured:true" ELSE "configured:false">>,
               NoResult, "", NoEntry)

\* ---------------------------------------------------------- scan handler
processScan_FetchBeforeValidation(req, cors, clientIp, pre) ==
  IF ~req.hasBody
  THEN LET e == errorResponse(<<"Cannot destructure property", "imageBase64">>)
       IN  Outcome(<<"config", "ratelimit", "catch", "send">>, e.status, cors,
                   TRUE, e.error, <<>>, NoResult, clientIp, pre)
  ELSE Outcome(<<"config", "ratelimit", "fetch">>, 0, cors, FALSE, "", <<>>,
               NoResult, clientIp, pre)

\* Lines 350-368 of the scan handler: the request body is read and validated
\* and the upstream call is started (status 0: suspended at `await fetch`).
processScan(req, cors, clientIp, pre) ==
  IF ~req.hasBody
  THEN \* destructuring req.body throws a TypeError, caught at line 376
       LET e == errorResponse(<<"Cannot destructure property", "imageBase64">>)
       IN  Outcome(<<"config", "ratelimit", "catch", "send">>, e.status, cors,
                   TRUE, e.error, <<>>, NoResult, clientIp, pre)
  ELSE
  LET validation == validateImagePayload(req.imageBase64, req.mimeType) IN
  IF ~validation.valid
  THEN Outcome(<<"config", "ratelimit", "validate", "send">>, 400, cors, TRUE,
               "Invalid request", validation.errors, NoResult, clientIp, pre)
  ELSE Outcome(<<"config", "ratelimit", "validate", "fetch">>, 0, cors, FALSE,
               "", <<>>, NoResult, clientIp, pre)

scanHandler_ConfigBeforeOptions(req, key, store, t) ==
  LET cors == setCorsHeaders("POST, OPTIONS") IN
  IF ~key
  THEN [out |-> Outcome(<<"config", "send">>, 500, cors, TRUE,
                        "API not configured", <<>>, NoResult, "", NoEntry),
        store |-> store]
  ELSE IF req.method = "OPTIONS"
  THEN [out |-> Outcome(<<"send">>, 200, cors, FALSE, "", <<>>, NoResult,
                        "", NoEntry),
        store |-> store]
  ELSE IF req.method # "POST"
  THEN [out |-> Outcome(<<"send">>, 405, cors, TRUE, "Method not allowed",
                        <<>>, NoResult, "", NoEntry),
        store |-> store]
  ELSE
  LET clientIp == getClientIp(req)
      pre == store[clientIp]
      rl == isRateLimited(store, clientIp, t)
  IN
  IF rl.limited
  THEN [out |-> Outcome(<<"config", "ratelimit", "send">>, 429,
                        [cors EXCEPT !.retryAfter = "60"], TRUE,
                        "Rate limit exceeded", <<>>, NoResult, clientIp, pre),
        store |-> rl.store]
  ELSE [out |-> processScan(req, cors, clientIp, pre), store |-> rl.store]

\* The scan handler from its entry to its first response or to the point
\* where it suspends at `await fetch`.  Returns the outcome and the
\* rate-limit Map afterwards.
scanHandler(req, key, store, t) ==
  LET cors == setCorsHeaders("POST, OPTIONS") IN
  IF req.method = "OPTIONS"
  THEN [out |-> Outcome(<<"send">>, 200, cors, FALSE, "", <<>>, NoResult,
                        "", NoEntry),
        store |-> store]
  ELSE IF req.method # "POST"
  THEN [out |-> Outcome(<<"send">>, 405, cors, TRUE, "Method not allowed",
                        <<>>, NoResult, "", NoEntry),
        store |-> store]
  ELSE IF ~key
  THEN [out |-> Outcome(<<"config", "send">>, 500, cors, TRUE,
                        "API not configured", <<>>, NoResult, "", NoEntry),
        store |-> store]
  ELSE
  LET clientIp == getClientIp(req)
      pre == store[clientIp]
      rl == isRateLimited(store, clientIp, t)
  IN
  IF rl.limited
  THEN [out |-> Outcome(<<"config", "ratelimit", "send">>, 429,
                        [cors EXCEPT !.retryAfter = "60"], TRUE,
                        "Rate limit exceeded", <<>>, NoResult, clientIp, pre),
        store |-> rl.store]
  ELSE [out |-> processScan(req, cors, clientIp, pre), store |-> rl.store]

\* How the upstream call ends.  reply.rejects: fetch itself rejects (transport
\* failure); otherwise status and errorText are the reply's status and body
\* text, isJson whether the body is JSON, and json its value.
callGeminiVision(reply) ==
  IF reply.rejects
  THEN [threw |-> TRUE, message |-> <<"fetch", "failed">>, value |-> reply.json]
  ELSE IF ~(reply.status \in 200..299)
  THEN [threw |-> TRUE,
        message |-> <<"Gemini API error", ToString(reply.status)>>
                    \o SubSeq(reply.errorText, 1,
                              IF Len(reply.errorText) < 200
                              THEN Len(reply.errorText) ELSE 200),
        value |-> reply.json]
  ELSE IF ~reply.isJson
  THEN [threw |-> TRUE, message |-> <<"Unexpected token", "in JSON">>,
        value |-> reply.json]
  ELSE [threw |-> FALSE, message |-> <<>>, value |-> reply.json]

\* The scan handler from the point where `await fetch` settles to its
\* response.  ctx is the suspended invocation.
scanHandlerResume(ctx, reply) ==
  LET cors == setCorsHeaders("POST, OPTIONS")
      geminiResponse == callGeminiVision(reply)
      parsed == parseGeminiResponse(geminiResponse.value)
  IN
  IF geminiResponse.threw
  THEN LET e == errorResponse(geminiResponse.message)
       IN  Outcome(ctx.trace \o <<"catch", "send">>, e.status, cors, TRUE,
                   e.error, <<>>, NoResult, "", NoEntry)
  ELSE IF parsed.threw
  THEN LET e == errorResponse(<<"parse failed">>)
       IN  Outcome(ctx.trace \o <<"parse", "catch", "send">>, e.status, cors,
                   TRUE, e.error, <<>>, NoResult, "", NoEntry)
  ELSE Outcome(ctx.trace \o <<"parse", "send">>, 200, cors, TRUE, "", <<>>,
               parsed.result, "", NoEntry)

\* ------------------------------------------------------------------ inputs
Methods == {"OPTIONS", "GET", "POST"}

DataUrl(subtype, payload) ==
  DataImagePrefix \o subtype \o Base64Marker \o payload

Jpeg == <<"j", "p", "e", "g">>
Subtypes == {Jpeg, <<"p", "n", "g">>, <<"s", "v", "g", "+", "x", "m", "l">>}
MimeTypes == {"", "image/jpeg", "image/png", "image/gif"}
Base64Chars == {"Q", "/"}
Payloads == UNION {[1..n -> Base64Chars] : n \in 0..MaxLen}

\* The header combinations requests arrive with.
HeaderSets ==
  {[xff |-> <<>>, realIp |-> "", remoteAddress |-> ""],
   [xff |-> <<"">>, realIp |-> "", remoteAddress |-> "10.0.0.1"],
   [xff |-> <<"10.0.0.1", "10.0.0.2">>, realIp |-> "10.0.0.3",
    remoteAddress |-> "10.0.0.4"]}

\* The request bodies scan requests arrive with (hasBody FALSE: no body).
Bodies ==
  {[hasBody |-> FALSE, imageBase64 |-> Undefined, mimeType |-> ""]}
  \cup [hasBody : {TRUE},
        imageBase64 : {Undefined, DataUrl(Jpeg, <<"Q">>)},
        mimeType : {"image/jpeg", "image/gif"}]

Request(method, headers, body) ==
  [method |-> method, xff |-> headers.xff, realIp |-> headers.realIp,
   remoteAddress |-> headers.remoteAddress, hasBody |-> body.hasBody,
   imageBase64 |-> body.imageBase64, mimeType |-> body.mimeType]

ScanRequests ==
  {Request(m, h, b) : m \in {"OPTIONS", "GET"},
                      h \in {CHOOSE x \in HeaderSets : x.xff = <<>> /\ x.realIp = ""},
                      b \in {CHOOSE x \in Bodies : ~x.hasBody}}
  \cup {Request("POST", h, b) : h \in HeaderSets, b \in Bodies}

\* Upstream reply bodies (the value of response.json()).
Part(hasText, text) == [hasText |-> hasText, text |-> text]
Candidate(hasParts, parts) == [hasParts |-> hasParts, parts |-> parts]
Gemini(isNull, hasCandidates, candidates) ==
  [isNull |-> isNull, hasCandidates |-> hasCandidates,
   candidates |-> candidates]
TextReply(text) == Gemini(FALSE, TRUE, <<Candidate(TRUE, <<Part(TRUE, text)>>)>>)

NoCandidatesReplies == {Gemini(FALSE, FALSE, <<>>), Gemini(FALSE, TRUE, <<>>)}
NoPartsReplies ==
  {Gemini(FALSE, TRUE, <<Candidate(FALSE, <<>>)>>),
   Gemini(FALSE, TRUE, <<Candidate(TRUE, <<>>)>>)}
NoJsonTexts ==
  {<<>>, <<"prose">>, <<"}", "prose", "{">>, <<"{", "prose", "}">>,
   <<"<fence json>", "{", "detected:true", "{", "}", "<fence>">>}
JsonTexts ==
  {<<"{", "}">>,
   <<"<fence json>", "{", "detected:false", "items:[apple]", "}", "<fence>">>,
   <<"prose", "{", "items:\"none\"", "notes:\"ok\"", "}", "prose">>}
NoJsonReplies ==
  {TextReply(t) : t \in NoJsonTexts}
  \cup {Gemini(FALSE, TRUE, <<Candidate(TRUE, <<Part(FALSE, <<>>)>>)>>)}
GeminiReplies ==
  {Gemini(TRUE, FALSE, <<>>)} \cup NoCandidatesReplies \cup NoPartsReplies
  \cup NoJsonReplies \cup {TextReply(t) : t \in JsonTexts}

Reply(rejects, status, errorText, isJson, json) ==
  [rejects |-> rejects, status |-> status, errorText |-> errorText,
   isJson |-> isJson, json |-> json]

\* The ways the upstream call can end.
UpstreamReplies ==
  {Reply(TRUE, 0, <<>>, FALSE, Gemini(TRUE, FALSE, <<>>))}
  \cup {Reply(FALSE, st, txt, FALSE, Gemini(TRUE, FALSE, <<>>)) :
          st \in {429, 503}, txt \in {<<"fetch", "quota">>}}
  \cup {Reply(FALSE, 200, <<>>, FALSE, Gemini(TRUE, FALSE, <<>>))}
  \cup {Reply(FALSE, 200, <<>>, TRUE, g) : g \in GeminiReplies}

\* The readings of Date.now(), in milliseconds: the first and the last
\* millisecond of the first window, the first millisecond of the second
\* window, and the last millisecond of each window after the first.
Times ==
  {0, RATE_LIMIT_WINDOW - 1, RATE_LIMIT_WINDOW}
  \cup {k * RATE_LIMIT_WINDOW + RATE_LIMIT_WINDOW - 1 : k \in 1..MaxWindows}

\* ------------------------------------------------------------------- state
VARIABLES
  now,            \* Date.now()
  apiKey,         \* whether process.env.GEMINI_API_KEY is set
  rateLimitStore, \* the Map of the scan module: client identifier -> entry
  inflight,       \* scan handler invocations suspended at `await fetch`
  observe,        \* what this run records about the program: "requests"
                  \* (last, storeNoPurge), "replies" (last), "history"
                  \* (hist), "validation" (vresult)
  last,           \* the handler run observed at the current clock reading,
                  \* if any: a request handled up to its response or its
                  \* suspension ("requests"), a resumed invocation ("replies")
  storeNoPurge,   \* the Map of the same limiter run without the purge
  tracked,        \* the client whose request history is recorded, or "none"
  hist,           \* the tracked client's requests of the last 60 seconds
  vimg, vmime,    \* inputs of the validation under test
  vresult         \* its result once it ran

vars == <<now, apiKey, rateLimitStore, inflight, observe, last, storeNoPurge,
          tracked, hist, vimg, vmime, vresult>>

NoOutcome ==
  Outcome(<<>>, 0, setCorsHeaders(""), FALSE, "", <<>>, NoResult, "", NoEntry)
NoBody == [hasBody |-> FALSE, imageBase64 |-> Undefined, mimeType |-> ""]
NoReply == Reply(FALSE, 0, <<>>, FALSE, Gemini(TRUE, FALSE, <<>>))
\* One observed handler run: the request (handler, method, body) or the
\* upstream reply it worked on, its outcome, and the decision of the limiter
\* without the purge.
Run(handler, method, body, reply, out, limitedNoPurge) ==
  [handler |-> handler, method |-> method, body |-> body, reply |-> reply,
   out |-> out, limitedNoPurge |-> limitedNoPurge]
NoLast == Run("none", "", NoBody, NoReply, NoOutcome, FALSE)
NotRun == [valid |-> FALSE, errors |-> <<"not run">>, cleanBase64 |-> <<>>,
           estimate4 |-> -1]

Observed(kind, record) == IF observe = kind THEN record ELSE NoLast

LimiterRan(out) == Contains(out.trace, "ratelimit")

\* The recorded requests that are less than one window old at time t, the
\* newest RATE_LIMIT_MAX_REQUESTS + 1 of them.
RECURSIVE Recent(_, _)
Recent(h, t) ==
  IF h = <<>> THEN <<>>
  ELSE IF t - Head(h).at >= RATE_LIMIT_WINDOW
          \/ Len(h) > RATE_LIMIT_MAX_REQUESTS + 1
       THEN Recent(Tail(h), t)
       ELSE h

InitBase ==
  /\ now = 0
  /\ apiKey \in BOOLEAN
  /\ rateLimitStore = [ip \in Clients |-> NoEntry]
  /\ storeNoPurge = [ip \in Clients |-> NoEntry]
  /\ inflight = <<>>
  /\ last = NoLast
  /\ hist = <<>>

Init ==
  /\ InitBase
  /\ observe = "requests"
  /\ tracked = "none"
  /\ vimg = Undefined /\ vmime = "" /\ vresult = NotRun

\* A request arrives at the scan endpoint and its handler runs until it
\* responds or suspends at the upstream call.
Scan(req) ==
  \E h \in {scanHandler(req, apiKey, rateLimitStore, now)} :
  LET ran == LimiterRan(h.out)
      shadow == IF ran /\ observe = "requests"
                THEN checkRateLimit(storeNoPurge, h.out.ip, now)
                ELSE [limited |-> FALSE, store |-> storeNoPurge]
  IN  /\ last = NoLast
      /\ h.out.status = 0 => Len(inflight) < MaxInflight
      /\ rateLimitStore' = h.store
      /\ storeNoPurge' = shadow.store
      /\ inflight' = IF h.out.status = 0
                     THEN Append(inflight, [trace |-> h.out.trace])
                     ELSE inflight
      /\ last' = Observed("requests",
                          Run("scan", req.method,
                              [hasBody |-> req.hasBody,
                               imageBase64 |-> req.imageBase64,
                               mimeType |-> req.mimeType],
                              NoReply, h.out, shadow.limited))
      /\ hist' = IF ran /\ h.out.ip = tracked
                 THEN Recent(Append(hist, [at |-> now,
                                           admitted |-> h.out.status # 429]),
                             now)
                 ELSE hist
      /\ UNCHANGED <<now, apiKey, observe, tracked, vimg, vmime, vresult>>

\* The upstream call of a suspended invocation settles and the handler runs
\* to its response.
Resume(i, reply) ==
  /\ last = NoLast
  /\ i \in 1..Len(inflight)
  /\ last' = Observed("replies",
                      Run("scan", "POST", NoBody, reply,
                          scanHandlerResume(inflight[i], reply), FALSE))
  /\ inflight' = SubSeq(inflight, 1, i - 1)
                 \o SubSeq(inflight, i + 1, Len(inflight))
  /\ UNCHANGED <<now, apiKey, rateLimitStore, storeNoPurge, observe, tracked,
                 hist, vimg, vmime, vresult>>

\* A request arrives at the health endpoint.
Health(method) ==
  /\ last = NoLast
  /\ last' = Observed("requests",
                      Run("health", method, NoBody, NoReply,
                          healthHandler(method, apiKey), FALSE))
  /\ UNCHANGED <<now, apiKey, rateLimitStore, storeNoPurge, inflight,
                 observe, tracked, hist, vimg, vmime, vresult>>

\* The observer lets go of the run it recorded.  Handler runs are observed
\* one at a time: the next one starts once last is released, which changes
\* nothing of the program's state.
Release ==
  /\ last # NoLast
  /\ last' = NoLast
  /\ UNCHANGED <<now, apiKey, rateLimitStore, storeNoPurge, inflight, observe,
                 tracked, hist, vimg, vmime, vresult>>

\* The clock advances.
Tick(t) ==
  /\ t > now
  /\ now' = t
  /\ last' = NoLast
  /\ hist' = Recent(hist, t)
  /\ UNCHANGED <<apiKey, rateLimitStore, storeNoPurge, inflight, observe,
                 tracked, vimg, vmime, vresult>>

\* The steps of the program and of its environment.
NextProgram ==
  \/ \E req \in ScanRequests : Scan(req)
  \/ \E i \in 1..MaxInflight, reply \in UpstreamReplies : Resume(i, reply)
  \/ \E method \in Methods : Health(method)
  \/ \E t \in Times : Tick(t)

Next == NextProgram \/ Release

Spec == Init /\ [][Next]_vars

\* The same program, observed at the responses of resumed invocations.
InitReplies ==
  /\ InitBase
  /\ observe = "replies"
  /\ tracked = "none"
  /\ vimg = Undefined /\ vmime = "" /\ vresult = NotRun

SpecReplies == InitReplies /\ [][Next]_vars

\* The same program with the request history of one client recorded.
InitTracked ==
  /\ InitBase
  /\ observe = "history"
  /\ tracked \in Clients
  /\ vimg = Undefined /\ vmime = "" /\ vresult = NotRun

\* Nothing is recorded in last here, so there is nothing to release.
SpecTracked == InitTracked /\ [][NextProgram]_vars

\* validateImagePayload applied to one input.
VImages ==
  {Undefined} \cup Payloads
  \cup {DataUrl(s, p) : s \in Subtypes, p \in Payloads}
  \cup {<<"Q", "\n">>, DataUrl(Jpeg, <<"Q", "\n">>),
        DataImagePrefix \o Base64Marker \o <<"Q">>}

InitValidate ==
  /\ InitBase
  /\ observe = "validation"
  /\ tracked = "none"
  /\ vimg \in VImages /\ vmime \in MimeTypes /\ vresult = NotRun

Validate ==
  /\ vresult = NotRun
  /\ vresult' = validateImagePayload(vimg, vmime)
  /\ UNCHANGED <<now, apiKey, rateLimitStore, storeNoPurge, inflight,
                 observe, last, tracked, hist, vimg, vmime>>

NextValidate == Validate

SpecValidate == InitValidate /\ [][NextValidate]_vars

\* ------------------------------------------------------------------ claims
InWindow(entry, t) ==
  entry # NoEntry /\ t - entry.windowStart < RATE_LIMIT_WINDOW
Exhausted(entry, t) ==
  InWindow(entry, t) /\ entry.count >= RATE_LIMIT_MAX_REQUESTS
\* last is a scan POST that reached the rate limiter.
LimiterRun == last.handler = "scan" /\ LimiterRan(last.out)

\* C3: once a client's window has elapsed (now - windowStart >= 60 s), the
\* client's next scan request is admitted and leaves its entry at count = 1,
\* windowStart = now, whether or not the purge removed the entry first.
C3_ElapsedWindowResets ==
  (/\ LimiterRun
   /\ last.out.pre # NoEntry
   /\ now - last.out.pre.windowStart >= RATE_LIMIT_WINDOW)
  => /\ last.out.status # 429
     /\ rateLimitStore[last.out.ip] = Entry(now, 1)

\* The previous window was exhausted and is old enough for the purge.
C3_Witness ==
  /\ LimiterRun
  /\ last.out.pre.count = RATE_LIMIT_MAX_REQUESTS
  /\ now - last.out.pre.windowStart > RATE_LIMIT_WINDOW
  /\ rateLimitStore[last.out.ip] = Entry(now, 1)

\* The previous window was exhausted and elapsed exactly now: not purged.
C3_WitnessNotPurged ==
  /\ LimiterRun
  /\ last.out.pre.count = RATE_LIMIT_MAX_REQUESTS
  /\ now - last.out.pre.windowStart = RATE_LIMIT_WINDOW

\* C4: the upstream call is started only for a POST with the credential
\* present, admitted by the limiter and with a valid body, after the three
\* checks ran in that order; a request answered 405, 500 (missing
\* credential), 429 or 400 started no upstream call, and with the credential
\* missing the 500 is sent right after the configuration check.
C4_UpstreamOnlyAfterChecks ==
  last.handler = "scan" =>
    /\ Contains(last.out.trace, "fetch") =>
         /\ last.out.trace = <<"config", "ratelimit", "validate", "fetch">>
         /\ last.method = "POST" /\ apiKey
         /\ ~Exhausted(last.out.pre, now)
         /\ last.body.hasBody
         /\ last.body.mimeType \in {"image/jpeg", "image/png"}
         /\ ~Falsy(last.body.imageBase64)
         /\ last.out.status = 0
    /\ (last.out.status \in {405, 429, 400}
        \/ last.out.error = "API not configured") =>
         ~Contains(last.out.trace, "fetch")
    /\ (last.method = "POST" /\ ~apiKey) =>
         /\ last.out.status = 500
         /\ last.out.error = "API not configured"
         /\ last.out.trace = <<"config", "send">>
    /\ \A i \in 1..Len(inflight) :
         inflight[i].trace = <<"config", "ratelimit", "validate", "fetch">>

\* An invalid body from an admitted client is answered 400, nothing upstream.
C4_Witness ==
  /\ last.handler = "scan" /\ last.out.status = 400
  /\ last.out.details = <<ErrMime>>
  /\ inflight = <<>>

\* C8: an OPTIONS request on either endpoint gets 200 with no body and the
\* CORS headers, whatever the credential and the rate-limit table are.
C8_OptionsAlways200 ==
  last.method = "OPTIONS" =>
    /\ last.out.status = 200
    /\ ~last.out.hasBody
    /\ last.out.trace = <<"send">>
    /\ last.out.headers =
         [allowOrigin |-> "https://eray464646.github.io",
          allowMethods |-> IF last.handler = "health" THEN "GET, OPTIONS"
                           ELSE "POST, OPTIONS",
          allowHeaders |-> "Content-Type, Authorization",
          vary |-> "Origin", retryAfter |-> ""]

\* OPTIONS on the scan endpoint while a client's quota is exhausted.
C8_Witness ==
  /\ last.method = "OPTIONS" /\ last.handler = "scan"
  /\ \E c \in Clients : Exhausted(rateLimitStore[c], now)

\* OPTIONS on the scan endpoint with the credential missing.
C8_WitnessUnconfigured ==
  last.method = "OPTIONS" /\ last.handler = "scan" /\ ~apiKey

\* C9: the limiter with the purge decides every request as the limiter
\* without it does, and right after a purge no entry is more than one window
\* length old.
C9_PurgeNeverDecides ==
  LimiterRun =>
    /\ (last.out.status = 429) <=> last.limitedNoPurge
    /\ \A c \in Clients :
         rateLimitStore[c] # NoEntry =>
           now - rateLimitStore[c].windowStart <= RATE_LIMIT_WINDOW

\* The purge removed another client's exhausted entry, which the limiter
\* without the purge still holds.
C9_Witness ==
  /\ LimiterRun
  /\ \E c \in Clients \ {last.out.ip} :
       /\ rateLimitStore[c] = NoEntry
       /\ storeNoPurge[c].count = RATE_LIMIT_MAX_REQUESTS

\* C10: quota is charged at the limiter and only there.  A scan POST with the
\* credential present that the limiter admits takes one unit of the client's
\* window whatever its outcome; one answered 429 leaves the entry as it is;
\* every entry has 1 <= count <= 10; every other step (OPTIONS, other
\* methods, health, missing credential, an upstream reply, the clock) leaves
\* the table unchanged.
C10_Step ==
  LET o == last'.out
      charged == last'.handler = "scan" /\ LimiterRan(o) /\ now' = now
  IN  /\ \A c \in Clients :
           rateLimitStore'[c] # NoEntry =>
             rateLimitStore'[c].count \in 1..RATE_LIMIT_MAX_REQUESTS
      /\ charged =>
           /\ last'.method = "POST" /\ apiKey
           /\ o.pre = rateLimitStore[o.ip]
           /\ o.status \in {0, 400, 429, 500}
           /\ o.status # 429 =>
                rateLimitStore'[o.ip].count =
                  IF InWindow(o.pre, now) THEN o.pre.count + 1 ELSE 1
           /\ o.status = 429 =>
                /\ rateLimitStore'[o.ip] = rateLimitStore[o.ip]
                /\ Exhausted(o.pre, now)
           /\ Exhausted(o.pre, now) => o.status = 429
      /\ ~charged => rateLimitStore' = rateLimitStore

C10_QuotaChargedAtLimiter == [][C10_Step]_vars

\* A request answered 400 took the last unit of its client's window.
C10_Witness ==
  /\ LimiterRun /\ last.out.status = 400
  /\ rateLimitStore[last.out.ip] = Entry(now, RATE_LIMIT_MAX_REQUESTS)

\* ----------------------------------------------------------------------
\* Claims about resumed invocations (SpecReplies).
Resumed == last.handler = "scan" /\ last.reply # NoReply
ReplyOk(reply) == ~reply.rejects /\ reply.status \in 200..299
Count(seq, x) == Cardinality({i \in 1..Len(seq) : seq[i] = x})

\* C5: when the upstream call returns a success status and a reply with no
\* candidates, no parts, or a text without a parseable JSON object, the
\* response is 200 with detected = true, items = [] and a non-empty
\* parseError.
C5_MalformedReplyFallback ==
  (/\ Resumed /\ ReplyOk(last.reply) /\ last.reply.isJson
   /\ last.reply.json \in
        NoCandidatesReplies \cup NoPartsReplies \cup NoJsonReplies)
  => /\ last.out.status = 200
     /\ last.out.result.detected = "true"
     /\ last.out.result.items = <<>>
     /\ last.out.result.parseError # ""

\* A reply whose text holds braces around something that is not JSON.
C5_Witness ==
  /\ Resumed /\ ReplyOk(last.reply)
  /\ last.reply.json = TextReply(<<"{", "prose", "}">>)
  /\ last.out.status = 200
  /\ last.out.result.parseError = "Unexpected token"

\* C6: a resumed invocation answers a non-success upstream status with 502
\* "External API error", a transport failure with 500 "Network error" and any
\* other exception with 500 "Internal server error"; it sends exactly one
\* response and made exactly one upstream call.
C6_UpstreamErrorMapping ==
  Resumed =>
    /\ (~last.reply.rejects /\ ~ReplyOk(last.reply)) =>
         (last.out.status = 502 /\ last.out.error = "External API error")
    /\ last.reply.rejects =>
         (last.out.status = 500 /\ last.out.error = "Network error")
    /\ (ReplyOk(last.reply) /\ ~last.reply.isJson) =>
         (last.out.status = 500 /\ last.out.error = "Internal server error")
    /\ last.out.status \in {200, 500, 502}
    /\ Count(last.out.trace, "send") = 1
    /\ Count(last.out.trace, "fetch") = 1

\* An upstream error whose body mentions "fetch" is still answered 502.
C6_Witness ==
  /\ Resumed /\ last.reply.status = 429
  /\ Contains(last.reply.errorText, "fetch")
  /\ last.out.status = 502

\* A success reply whose body is not JSON: the generic 500.
C6_WitnessOtherException ==
  /\ Resumed /\ ReplyOk(last.reply) /\ ~last.reply.isJson
  /\ last.out.error = "Internal server error"

\* ----------------------------------------------------------------------
\* Claims about request rates (SpecTracked).  hist holds the tracked client's
\* scan requests that reached the limiter and are less than 60 s old, oldest
\* first, so all of them lie within one rolling 60-second window.
Admitted == {i \in 1..Len(hist) : hist[i].admitted}

\* A client that has made at most 10 requests in the window ending at its
\* newest request did not get 429 for it.
C1_NoEarly429 ==
  (hist # <<>> /\ hist[Len(hist)].at = now /\ ~hist[Len(hist)].admitted)
  => Len(hist) > RATE_LIMIT_MAX_REQUESTS

\* The 11th request of a client within a rolling window got 429.
C1_EleventhGets429 ==
  Len(hist) > RATE_LIMIT_MAX_REQUESTS => ~hist[Len(hist)].admitted

\* C1: a client with at most 10 requests within any rolling 60-second window
\* never receives 429, and the 11th request of a client within the same
\* window receives 429.
C1_RollingWindowLimit == C1_NoEarly429 /\ C1_EleventhGets429

\* C2: in every interval of 60 seconds at most 10 of a client's scan requests
\* pass the rate limiter, whatever is in flight.
C2_AtMostTenPerInterval ==
  Cardinality(Admitted) <= RATE_LIMIT_MAX_REQUESTS

\* ----------------------------------------------------------------------
\* Claims about validation (SpecValidate).
\* C7: validating the data-URL-prefixed input 'data:image/<subtype>;base64,'
\* + p gives the same size estimate, errors and cleaned payload as validating
\* the raw payload p, for every base64 payload p including the empty one.
C7_PrefixedEqualsRaw ==
  vresult # NotRun =>
    \A subtype \in Subtypes, p \in Payloads :
      vimg = DataUrl(subtype, p) => vresult = validateImagePayload(p, vmime)

\* The same for non-empty payloads only.
C7_PrefixedEqualsRawNonEmpty ==
  vresult # NotRun =>
    \A subtype \in Subtypes, p \in Payloads \ {<<>>} :
      vimg = DataUrl(subtype, p) => vresult = validateImagePayload(p, vmime)

====
